---------------------------- MODULE Spec2Model ----------------------------
(***************************************************************************)
(* Order workflow of the NFC-card backend: the order validators and the    *)
(* form normaliser (src/utils/orderValidation.js), the upload path helper  *)
(* (src/unnamed/part_001), the order controller (src/unnamed/part_000)    *)
(* and the image list of a product (src/models/productModel.js).           *)
(*                                                                         *)
(* JavaScript values are modelled as strings: a TLA+ string is the         *)
(* JavaScript string with the same characters, and the tokens below stand  *)
(* for the values that are not strings.  A file path is a sequence of      *)
(* tokens (separators, segments and pieces of segments), and the empty     *)
(* sequence stands for an absent path.  An optional object is a sequence   *)
(* of length zero (absent) or one (present).                               *)
(***************************************************************************)
EXTENDS Integers, Sequences, FiniteSets, TLC

VARIABLES orders, req, res, call, productDoc

vars == <<orders, req, res, call, productDoc>>

\* ------------------------------------------------------------ JS values
Undefined == "<undefined>"
Null == "<null>"
JsTrue == "<true>"
JsFalse == "<false>"
TypeError == "<TypeError>"

\* ToBoolean of a string-modelled value.
Truthy(v) == v \notin {Undefined, Null, JsFalse, ""}

NoPath == <<>>
None == <<>>
Some(x) == <<x>>

RECURSIVE Join(_)
\* Array.prototype.join(', ')
Join(s) ==
  IF Len(s) = 0 THEN ""
  ELSE IF Len(s) = 1 THEN s[1]
  ELSE s[1] \o ", " \o Join(Tail(s))

Includes(s, x) == \E i \in 1..Len(s) : s[i] = x

\* ------------------------------------------------------------ validators
COUNTRY_CITY_MAP ==
  [c \in {"JO", "UK"} |->
     IF c = "JO" THEN <<"Amman", "Irbid", "Zarqa", "Aqaba", "Salt">>
     ELSE <<"London", "Manchester", "Birmingham", "Liverpool", "Bristol">>]

\* Object.keys(COUNTRY_CITY_MAP), in insertion order.
CountryKeys == <<"JO", "UK">>

\* Property names every object literal inherits from Object.prototype: a
\* lookup COUNTRY_CITY_MAP[k] with one of them yields a truthy value that is
\* not an array.
ObjectPrototypeKeys ==
  {"constructor", "toString", "valueOf", "hasOwnProperty", "__proto__"}

LogoRequiredMsg == "Company logo is required when printed logo is selected"

validateCompanyLogoSkip(cardDesign, files, existingOrder) == Null

validateCompanyLogoNoExisting(cardDesign, files, existingOrder) ==
  IF cardDesign = None \/ ~Truthy(cardDesign[1].includePrintedLogo)
  THEN Null
  ELSE IF cardDesign[1].companyLogo # NoPath \/ Len(files) > 0 THEN Null
  ELSE LogoRequiredMsg

validateCompanyLogo(cardDesign, files, existingOrder) ==
  IF cardDesign = None \/ ~Truthy(cardDesign[1].includePrintedLogo)
  THEN Null
  ELSE LET hasUploadedLogo ==
             cardDesign[1].companyLogo # NoPath \/ Len(files) > 0
           hasExistingLogo ==
             existingOrder # None /\ existingOrder[1].cardDesign.companyLogo # NoPath
       IN IF ~hasUploadedLogo /\ ~hasExistingLogo THEN LogoRequiredMsg ELSE Null

validateCountryCityAnyCity(country, city) ==
  IF ~Truthy(country) \/ ~Truthy(city) THEN Null
  ELSE IF country \in DOMAIN COUNTRY_CITY_MAP THEN Null
  ELSE IF country \in ObjectPrototypeKeys THEN TypeError
  ELSE "Invalid country '" \o country \o "'. Available countries are: "
       \o Join(CountryKeys)

\* The result is Null, a message, or TypeError when the call throws
\* ("validCities.includes is not a function").
validateCountryCity(country, city) ==
  IF ~Truthy(country) \/ ~Truthy(city) THEN Null
  ELSE IF country \in DOMAIN COUNTRY_CITY_MAP
  THEN IF Includes(COUNTRY_CITY_MAP[country], city) THEN Null
       ELSE "Invalid city '" \o city \o "' for country '" \o country
            \o "'. Valid cities are: " \o Join(COUNTRY_CITY_MAP[country])
  ELSE IF country \in ObjectPrototypeKeys THEN TypeError
  ELSE "Invalid country '" \o country \o "'. Available countries are: "
       \o Join(CountryKeys)

Or(a, b) == IF Truthy(a) THEN a ELSE b

validateDeliveryInfo(deliveryInfo, existingOrder) ==
  IF deliveryInfo = None THEN Null
  ELSE LET country ==
             Or(deliveryInfo[1].country,
                IF existingOrder = None THEN Undefined
                ELSE existingOrder[1].deliveryInfo.country)
           city ==
             Or(deliveryInfo[1].city,
                IF existingOrder = None THEN Undefined
                ELSE existingOrder[1].deliveryInfo.city)
       IN validateCountryCity(country, city)

validateRequiredFieldsNoProduct(orderData) ==
  IF orderData.personalInfo = None THEN "Personal information is required"
  ELSE IF orderData.cardDesign = None THEN "Card design information is required"
  ELSE IF orderData.deliveryInfo = None THEN "Delivery information is required"
  ELSE Null

validateRequiredFields(orderData) ==
  IF orderData.personalInfo = None THEN "Personal information is required"
  ELSE IF orderData.cardDesign = None THEN "Card design information is required"
  ELSE IF orderData.deliveryInfo = None THEN "Delivery information is required"
  ELSE IF ~Truthy(orderData.product) THEN "Product ID is required"
  ELSE Null


\* ------------------------------------------------------------ form normaliser
\* A flat form key is a sequence of tokens: the group prefix up to and
\* including its "[", then names and brackets.
CardDesignPrefix == "cardDesign["
DeliveryInfoPrefix == "deliveryInfo["
PersonalInfoPrefix == "personalInfo["

StartsWith(key, prefix) == Len(key) > 0 /\ key[1] = prefix

RECURSIVE RemoveFirst(_, _)
\* String.prototype.replace(tok, ''): the first occurrence only.
RemoveFirst(s, tok) ==
  IF Len(s) = 0 THEN s
  ELSE IF s[1] = tok THEN Tail(s)
  ELSE <<s[1]>> \o RemoveFirst(Tail(s), tok)

RECURSIVE Concat(_)
Concat(s) == IF Len(s) = 0 THEN "" ELSE s[1] \o Concat(Tail(s))

\* key.replace('<group>[', '').replace(']', ''), as tokens.
NestedKey(key) == RemoveFirst(Tail(key), "]")

\* Values that are not JavaScript strings; "<array>" is what a repeated form
\* field or a JSON body supplies.
JsArray == "<array>"
NonStrings == {Undefined, Null, JsTrue, JsFalse, JsArray}

\* String.prototype.toLowerCase on the colour spellings of the model.
ToLowerCase(s) ==
  CASE s = "#FFF" -> "#fff"
    [] s = "#FFFFFF" -> "#ffffff"
    [] s = "BLACK" -> "black"
    [] s = "White" -> "white"
    [] OTHER -> s

StringBooleanUntouched(v) ==
  IF v = "true" THEN JsTrue ELSE IF v = "false" THEN JsFalse ELSE v

\* v === 'true' || v === true
StringBoolean(v) == IF v = "true" \/ v = JsTrue THEN JsTrue ELSE JsFalse

NormalizeColor(color) ==
  LET c == ToLowerCase(color)
  IN IF c \in {"#000", "#000000", "black"} THEN "black"
     ELSE IF c \in {"#fff", "#ffffff", "white"} THEN "white"
     ELSE color

\* The nested object built from the keys of one group: nested name |-> value.
\* An indexed key (phoneNumbers][0) lands in a sparse array, index |-> value.
GroupKeys(body, prefix) == {k \in DOMAIN body : StartsWith(k, prefix)}

IsIndexed(nk) == Includes(nk, "[") /\ Includes(nk, "]")

ParseInt(tok) ==
  CASE tok = "0" -> 0 [] tok = "1" -> 1 [] tok = "2" -> 2 [] OTHER -> -1

FlatGroup(body, prefix) ==
  LET ks == GroupKeys(body, prefix)
      names == {Concat(NestedKey(k)) : k \in ks}
  IN [n \in names |-> body[CHOOSE k \in ks : Concat(NestedKey(k)) = n]]

PersonalGroup(body) ==
  LET ks == GroupKeys(body, PersonalInfoPrefix)
      plain == {k \in ks : ~IsIndexed(NestedKey(k))}
      indexed == ks \ plain
      names == {Concat(NestedKey(k)) : k \in plain} \cup {NestedKey(k)[1] : k \in indexed}
  IN [n \in names |->
        IF \E k \in plain : Concat(NestedKey(k)) = n
        THEN body[CHOOSE k \in plain : Concat(NestedKey(k)) = n]
        ELSE LET mine == {k \in indexed : NestedKey(k)[1] = n}
             IN [i \in {ParseInt(NestedKey(k)[3]) : k \in mine} |->
                   body[CHOOSE k \in mine : ParseInt(NestedKey(k)[3]) = i]]]

\* The middleware: the request body's three groups after it ran, whether it
\* threw, and how often it called next().  nested holds the body's own nested
\* groups (None: absent) before the call.
parseFormData(body, nested) ==
  LET pi == PersonalGroup(body)
      cd == FlatGroup(body, CardDesignPrefix)
      di == FlatGroup(body, DeliveryInfoPrefix)
      outPi == IF DOMAIN pi # {} THEN Some(pi) ELSE nested.personalInfo
      cd1 == IF "includePrintedLogo" \in DOMAIN cd
             THEN [cd EXCEPT !["includePrintedLogo"] = StringBoolean(@)] ELSE cd
      hasColor == "color" \in DOMAIN cd /\ Truthy(cd["color"])
      throws == DOMAIN cd # {} /\ hasColor /\ cd["color"] \in NonStrings
      cd2 == IF hasColor /\ ~throws
             THEN [cd1 EXCEPT !["color"] = NormalizeColor(@)] ELSE cd1
      outCd == IF DOMAIN cd # {} THEN Some(cd2) ELSE nested.cardDesign
      di1 == IF "useSameContact" \in DOMAIN di
             THEN [di EXCEPT !["useSameContact"] = StringBoolean(@)] ELSE di
      outDi == IF DOMAIN di # {} /\ ~throws THEN Some(di1) ELSE nested.deliveryInfo
  IN [personalInfo |-> outPi, cardDesign |-> outCd, deliveryInfo |-> outDi,
      threw |-> throws, nextCalls |-> IF throws THEN 0 ELSE 1]

\* ------------------------------------------------------------ uploads
\* indexOf('public') finds the first token "public"; substring(index + 6)
\* keeps what follows it.
RECURSIVE IndexOf(_, _)
IndexOf(path, tok) ==
  IF Len(path) = 0 THEN 0
  ELSE IF path[1] = tok THEN 1
  ELSE LET r == IndexOf(Tail(path), tok) IN IF r = 0 THEN 0 ELSE r + 1

getRelativeFilePath(file) ==
  LET publicIndex == IndexOf(file.path, "public")
  IN IF publicIndex # 0 THEN SubSeq(file.path, publicIndex + 1, Len(file.path))
     ELSE <<file.filename>>

\* The middleware: file is req.file and files is req.files.companyLogo, each
\* a sequence holding the upload when there is one.  The result is req.body.
processOrderFiles(file, files, body) ==
  LET setLogo(path) ==
        [body EXCEPT !.cardDesign =
           IF body.cardDesign = None
           THEN Some([includePrintedLogo |-> Undefined, companyLogo |-> path])
           ELSE Some([body.cardDesign[1] EXCEPT !.companyLogo = path])]
  IN IF file # None /\ file[1].fieldname = "companyLogo"
     THEN setLogo(getRelativeFilePath(file[1]))
     ELSE IF Len(files) > 0 THEN setLogo(getRelativeFilePath(files[1]))
     ELSE body

\* ------------------------------------------------------------ order helpers
\* The helpers of utils/orderUtils and the Order model are not among the
\* sources; they are modelled from the specification.
LOGO_SURCHARGE == 5

calculateOrderTotal(productPrice, includePrintedLogo) ==
  LET logoSurcharge == IF includePrintedLogo = JsTrue THEN LOGO_SURCHARGE ELSE 0
  IN [total |-> productPrice + logoSurcharge, logoSurcharge |-> logoSurcharge]

\* processOrderFiles(req.files, req.body) of the controller.
resolveOrderFiles(files, body) == processOrderFiles(None, files, body)

setOrderDefaults(body, user) ==
  [customer |-> user.id, createdBy |-> user.id, status |-> "pending"]

UpdateKeys ==
  {"personalInfo.name", "cardDesign.includePrintedLogo", "cardDesign.companyLogo",
   "deliveryInfo.country", "deliveryInfo.city"}

Supplied(v) == IF v = Undefined THEN None ELSE Some(v)

SuppliedPath(path) == IF path = NoPath THEN None ELSE Some(path)

\* The sparse update set: each key of UpdateKeys maps to Some(value) when the
\* request supplies it and to None when it does not.
buildOrderUpdateObject(body) ==
  [k \in UpdateKeys |->
     CASE k = "personalInfo.name" ->
            IF body.personalInfo = None THEN None
            ELSE Supplied(body.personalInfo[1].name)
       [] k = "cardDesign.includePrintedLogo" ->
            IF body.cardDesign = None THEN None
            ELSE Supplied(body.cardDesign[1].includePrintedLogo)
       [] k = "cardDesign.companyLogo" ->
            IF body.cardDesign = None THEN None
            ELSE SuppliedPath(body.cardDesign[1].companyLogo)
       [] k = "deliveryInfo.country" ->
            IF body.deliveryInfo = None THEN None
            ELSE Supplied(body.deliveryInfo[1].country)
       [] k = "deliveryInfo.city" ->
            IF body.deliveryInfo = None THEN None
            ELSE Supplied(body.deliveryInfo[1].city)]

\* Object.keys(updateData)
ObjectKeys(updateData) == {k \in DOMAIN updateData : updateData[k] # None}

\* findByIdAndUpdate(id, {$set: updateData}, {runValidators: false})
ApplySet(order, updateData) ==
  LET pick(k, old) == IF updateData[k] # None THEN updateData[k][1] ELSE old
  IN [order EXCEPT
        !.personalInfo.name = pick("personalInfo.name", @),
        !.cardDesign.includePrintedLogo = pick("cardDesign.includePrintedLogo", @),
        !.cardDesign.companyLogo = pick("cardDesign.companyLogo", @),
        !.deliveryInfo.country = pick("deliveryInfo.country", @),
        !.deliveryInfo.city = pick("deliveryInfo.city", @)]

OrderStatuses ==
  {"pending", "confirmed", "printed", "shipped", "delivered", "cancelled"}

\* order.updateStatus(status) followed by order.save(): the status is stored
\* when it is one of the recognised values, and the call throws otherwise.
updateStatus(order, status) ==
  IF status \in OrderStatuses THEN Some([order EXCEPT !.status = status]) ELSE None

\* Order.findByCustomer(customerId): the ids of that customer's orders.
findByCustomer(store, customerId) ==
  {i \in 1..Len(store) : store[i].customer = customerId}

\* ------------------------------------------------------------ requests
MaxOrders == 1

\* Product.findById: the catalogue holds one product.
ProductCatalog == [p \in {"P1"} |-> [price |-> 20]]

Users ==
  {[id |-> "u1", role |-> "user"], [id |-> "u2", role |-> "user"],
   [id |-> "a1", role |-> "admin"]}

Customers == {u \in Users : u.role = "user"}

\* multer's record of an uploaded company logo.
LogoUpload ==
  [fieldname |-> "companyLogo", filename |-> "logo-1.png",
   path |-> <<"/", "app", "/", "public", "/", "uploads", "/", "companyLogo",
              "/", "logo-1.png">>]

\* A logo path a client sends in the body.
BodyLogo == <<"/", "uploads", "/", "companyLogo", "/", "old.png">>

ReqFiles == {None, Some(LogoUpload)}
ReqProducts == {Undefined, "P1", "P9"}
ReqCountries == {Undefined, "JO", "FR", "constructor"}
ReqCities == {Undefined, "Amman", "Irbid", "London"}

ReqPersonalInfo == {None, Some([name |-> "Ann"])}

ReqCardDesign ==
  {None} \cup
  {Some([includePrintedLogo |-> i, companyLogo |-> l]) :
     i \in {Undefined, JsTrue, JsFalse}, l \in {NoPath}}

ReqDeliveryInfo ==
  {None} \cup
  {Some([country |-> c, city |-> ci]) : c \in ReqCountries, ci \in ReqCities}

\* The Order schema (not among the sources) is taken to require a country and
\* a city, so a creation request that names a delivery names both.
CreateBodies ==
  {b \in [personalInfo : ReqPersonalInfo, cardDesign : ReqCardDesign,
          deliveryInfo : ReqDeliveryInfo, product : ReqProducts] :
     b.deliveryInfo # None =>
       /\ b.deliveryInfo[1].country # Undefined
       /\ b.deliveryInfo[1].city # Undefined}

\* Partial updates: of the design and the delivery in every combination, and
\* of the personal information alone.
UpdateBodies ==
  [personalInfo : {None}, cardDesign : ReqCardDesign,
   deliveryInfo : ReqDeliveryInfo, product : {Undefined}]
  \cup
  [personalInfo : ReqPersonalInfo \ {None}, cardDesign : {None},
   deliveryInfo : {None}, product : {Undefined}]

\* ------------------------------------------------------------ responses
Response(code, message) == [code |-> code, message |-> message, orders |-> {}]

\* An exception that is no AppError reaches the global error handler, which
\* answers 500.
Thrown(message) == Response(500, message)

NoResponse == Response(0, "")

\* What the last request asked for, as far as the properties below need it.
NoRequest ==
  [op |-> "", id |-> 0, product |-> Undefined, groups |-> FALSE,
   emptyChange |-> FALSE, badDelivery |-> FALSE, user |-> "", role |-> "",
   customerId |-> "", status |-> Undefined]

\* The request carries its three groups.
Groups(body) ==
  body.personalInfo # None /\ body.cardDesign # None /\ body.deliveryInfo # None

AllowedCities(country) ==
  CASE country = "JO" -> {"Amman", "Irbid", "Zarqa", "Aqaba", "Salt"}
    [] country = "UK" -> {"London", "Manchester", "Birmingham", "Liverpool", "Bristol"}
    [] OTHER -> {}

\* The request names no recognised field and carries no upload.
NothingSupplied(body, files) ==
  /\ body.personalInfo = None \/ body.personalInfo[1].name = Undefined
  /\ \/ body.cardDesign = None
     \/ /\ body.cardDesign[1].includePrintedLogo = Undefined
        /\ body.cardDesign[1].companyLogo = NoPath
  /\ \/ body.deliveryInfo = None
     \/ /\ body.deliveryInfo[1].country = Undefined
        /\ body.deliveryInfo[1].city = Undefined
  /\ files = None

\* The delivery a request resolves to, its own values first and the stored
\* ones of the order it updates second, names an unknown country or a city
\* outside the country's list.
BadDelivery(deliveryInfo, existingOrder) ==
  /\ deliveryInfo # None
  /\ LET country == IF deliveryInfo[1].country # Undefined THEN deliveryInfo[1].country
                    ELSE IF existingOrder = None THEN Undefined
                    ELSE existingOrder[1].deliveryInfo.country
         city == IF deliveryInfo[1].city # Undefined THEN deliveryInfo[1].city
                 ELSE IF existingOrder = None THEN Undefined
                 ELSE existingOrder[1].deliveryInfo.city
     IN /\ country # Undefined
        /\ city # Undefined
        /\ city \notin AllowedCities(country)

\* ------------------------------------------------------------ controller
\* Order.create(req.body)
NewOrder(body, defaults, product, pricing) ==
  [customer |-> defaults.customer,
   product |-> body.product,
   personalInfo |-> body.personalInfo[1],
   cardDesign |-> body.cardDesign[1],
   deliveryInfo |-> body.deliveryInfo[1],
   productPrice |-> product.price,
   total |-> pricing.total,
   logoSurcharge |-> pricing.logoSurcharge,
   status |-> defaults.status,
   notes |-> Undefined]

createOrderLogoFirst(user, reqBody, files) ==
  LET defaults == setOrderDefaults(reqBody, user)
      requiredFieldsError == validateRequiredFields(reqBody)
      body == resolveOrderFiles(files, reqBody)
      logoError == validateCompanyLogo(body.cardDesign, files, None)
      deliveryError == validateDeliveryInfo(body.deliveryInfo, None)
  IN IF requiredFieldsError # Null
     THEN [res |-> Response(400, requiredFieldsError), created |-> None]
     ELSE IF logoError # Null
     THEN [res |-> Response(400, logoError), created |-> None]
     ELSE IF reqBody.product \notin DOMAIN ProductCatalog
     THEN [res |-> Response(404, "Product not found"), created |-> None]
     ELSE IF deliveryError = TypeError
     THEN [res |-> Thrown("validCities.includes is not a function"), created |-> None]
     ELSE IF deliveryError # Null
     THEN [res |-> Response(400, deliveryError), created |-> None]
     ELSE LET product == ProductCatalog[body.product]
              pricing == calculateOrderTotal(product.price,
                                             body.cardDesign[1].includePrintedLogo)
          IN [res |-> Response(201, "NFC Card order created successfully!"),
              created |-> Some(NewOrder(body, defaults, product, pricing))]

\* exports.createOrder: the response, and the order created if any.
createOrder(user, reqBody, files) ==
  LET defaults == setOrderDefaults(reqBody, user)
      requiredFieldsError == validateRequiredFields(reqBody)
      body == resolveOrderFiles(files, reqBody)
      logoError == validateCompanyLogo(body.cardDesign, files, None)
      deliveryError == validateDeliveryInfo(body.deliveryInfo, None)
  IN IF requiredFieldsError # Null
     THEN [res |-> Response(400, requiredFieldsError), created |-> None]
     ELSE IF reqBody.product \notin DOMAIN ProductCatalog
     THEN [res |-> Response(404, "Product not found"), created |-> None]
     ELSE IF logoError # Null
     THEN [res |-> Response(400, logoError), created |-> None]
     ELSE IF deliveryError = TypeError
     THEN [res |-> Thrown("validCities.includes is not a function"), created |-> None]
     ELSE IF deliveryError # Null
     THEN [res |-> Response(400, deliveryError), created |-> None]
     ELSE LET product == ProductCatalog[body.product]
              pricing == calculateOrderTotal(product.price,
                                             body.cardDesign[1].includePrintedLogo)
          IN [res |-> Response(201, "NFC Card order created successfully!"),
              created |-> Some(NewOrder(body, defaults, product, pricing))]

\* One createOrder request, start to response.
HandleCreateOrder(user, body, files) ==
  /\ Len(orders) < MaxOrders
  /\ LET out == createOrder(user, body, files)
     IN /\ orders' = orders \o out.created
        /\ res' = out.res
  /\ req' = [NoRequest EXCEPT !.op = "createOrder", !.product = body.product,
                              !.groups = Groups(body),
                              !.badDelivery = BadDelivery(body.deliveryInfo, None)]

CreateOrder(user, body, files) ==
  /\ HandleCreateOrder(user, body, files)
  /\ UNCHANGED <<call, productDoc>>

\* The same request, with req.body and req.files as received kept in call.
CreateOrderOf(user, body, files) ==
  /\ HandleCreateOrder(user, body, files)
  /\ call' = [fn |-> "createOrder", args |-> [body |-> body, files |-> files],
              result |-> Null]
  /\ UNCHANGED productDoc

IsEmptyUpdateNever(updateData) == FALSE

\* Object.keys(updateData).length === 0
IsEmptyUpdate(updateData) == Cardinality(ObjectKeys(updateData)) = 0

\* The update set of exports.updateOrder: the supplied fields, and the
\* uploaded file's own path when there is an upload.
UpdateData(body, files) ==
  LET updateData == buildOrderUpdateObject(body)
  IN IF Len(files) > 0
     THEN [updateData EXCEPT !["cardDesign.companyLogo"] = Some(files[1].path)]
     ELSE updateData

\* exports.updateOrder: the response and the store it leaves.
updateOrder(store, id, reqBody, files) ==
  IF id \notin 1..Len(store)
  THEN [res |-> Response(404, "No order found with that ID"), store |-> store]
  ELSE
    LET existingOrder == Some(store[id])
        body == resolveOrderFiles(files, reqBody)
        logoError == validateCompanyLogo(body.cardDesign, files, existingOrder)
        deliveryError == validateDeliveryInfo(body.deliveryInfo, existingOrder)
        updateData == UpdateData(body, files)
    IN IF logoError # Null
       THEN [res |-> Response(400, logoError), store |-> store]
       ELSE IF deliveryError = TypeError
       THEN [res |-> Thrown("validCities.includes is not a function"), store |-> store]
       ELSE IF deliveryError # Null
       THEN [res |-> Response(400, deliveryError), store |-> store]
       ELSE IF IsEmptyUpdate(updateData)
       THEN [res |-> Response(400, "No valid fields provided for update"),
             store |-> store]
       ELSE [res |-> Response(200, "Order updated successfully"),
             store |-> [store EXCEPT ![id] = ApplySet(@, updateData)]]

\* One updateOrder request, start to response.
HandleUpdateOrder(id, body, files) ==
  /\ LET out == updateOrder(orders, id, body, files)
     IN /\ orders' = out.store
        /\ res' = out.res
  /\ req' = [NoRequest EXCEPT
               !.op = "updateOrder", !.id = id,
               !.emptyChange = NothingSupplied(body, files),
               !.badDelivery =
                  id \in 1..Len(orders) /\ BadDelivery(body.deliveryInfo, Some(orders[id]))]

UpdateOrder(id, body, files) ==
  /\ HandleUpdateOrder(id, body, files)
  /\ UNCHANGED <<call, productDoc>>

\* The same request, with req.body and req.files as received kept in call.
UpdateOrderOf(id, body, files) ==
  /\ HandleUpdateOrder(id, body, files)
  /\ call' = [fn |-> "updateOrder", args |-> [body |-> body, files |-> files],
              result |-> Null]
  /\ UNCHANGED productDoc

StatusMessageGeneric(status) == "Order status updated to " \o status

StatusMessage(status) ==
  IF status = "confirmed" THEN "Order confirmed! Your NFC card will be printed soon."
  ELSE IF status = "printed"
  THEN "Your NFC card has been printed and is ready for shipping!"
  ELSE IF status = "shipped"
  THEN "Your NFC card has been shipped! You will receive it soon."
  ELSE IF status = "delivered"
  THEN "Order delivered successfully! Thank you for your business."
  ELSE "Order status updated to " \o status

\* exports.updateOrderStatus
updateOrderStatus(store, id, status, notes) ==
  IF ~Truthy(status)
  THEN [res |-> Response(400, "Please provide a status"), store |-> store]
  ELSE IF id \notin 1..Len(store)
  THEN [res |-> Response(404, "No order found with that ID"), store |-> store]
  ELSE LET updated == updateStatus(store[id], status)
       IN IF updated = None
          THEN [res |-> Response(400, "Invalid status"), store |-> store]
          ELSE [res |-> Response(200, StatusMessage(status)),
                store |-> [store EXCEPT ![id] =
                             IF Truthy(notes) THEN [updated[1] EXCEPT !.notes = notes]
                             ELSE updated[1]]]

UpdateOrderStatus(id, status, notes) ==
  /\ LET out == updateOrderStatus(orders, id, status, notes)
     IN /\ orders' = out.store
        /\ res' = out.res
  /\ req' = [NoRequest EXCEPT !.op = "updateOrderStatus", !.id = id, !.status = status]
  /\ UNCHANGED <<call, productDoc>>

MayReadAnyone(user, customerId) == TRUE

\* req.user.role !== 'admin' && req.user._id.toString() !== customerId, negated
MayRead(user, customerId) == user.role = "admin" \/ user.id = customerId

\* exports.getCustomerOrders
getCustomerOrders(store, user, customerId) ==
  IF ~MayRead(user, customerId)
  THEN Response(403, "You can only access your own orders")
  ELSE [Response(200, "success") EXCEPT !.orders = findByCustomer(store, customerId)]

GetCustomerOrders(user, customerId) ==
  /\ res' = getCustomerOrders(orders, user, customerId)
  /\ req' = [NoRequest EXCEPT !.op = "getCustomerOrders", !.user = user.id,
                              !.role = user.role, !.customerId = customerId]
  /\ UNCHANGED <<orders, call, productDoc>>

\* ------------------------------------------------------------ product images
DefaultProductImage == "/img/products/default-product.jpg"

\* Image URLs a caller passes to addImage and removeImage.
ImageUrls ==
  {"/uploads/images/front-1.png", "/uploads/images/back-2.png", DefaultProductImage}

\* ProductSchema.methods.addImage: the new this.images.
addImage(images, imageUrl) ==
  IF ~Includes(images, imageUrl) THEN Append(images, imageUrl) ELSE images

\* ProductSchema.methods.removeImage: the new this.images.
removeImage(images, imageUrl) ==
  LET keep(img) == img # imageUrl IN SelectSeq(images, keep)

preSaveImagesAsIs(images) == images

\* ProductSchema.pre('save'), the hook on the image list: the new this.images.
preSaveImages(images) ==
  IF Len(images) = 0 THEN Append(images, DefaultProductImage) ELSE images

\* A product document before its first save: images is this.images,
\* persisted the image list of the stored document (None: never saved).
\* op, wasEmpty and removed record the last operation, whether the list was
\* empty when the last save began, and whether removeImage ever took an
\* image off the list.
NewProduct ==
  [images |-> <<>>, persisted |-> None, op |-> "", wasEmpty |-> FALSE,
   removed |-> FALSE]

AddImage(imageUrl) ==
  /\ productDoc' = [productDoc EXCEPT !.images = addImage(@, imageUrl),
                                      !.op = "addImage"]
  /\ UNCHANGED <<orders, req, res, call>>

RemoveImage(imageUrl) ==
  /\ productDoc' = [productDoc EXCEPT
                      !.images = removeImage(@, imageUrl),
                      !.op = "removeImage",
                      !.removed = @ \/ Includes(productDoc.images, imageUrl)]
  /\ UNCHANGED <<orders, req, res, call>>

\* document.save(): the pre-save hooks run, then the document is written.
Save ==
  /\ LET images == preSaveImages(productDoc.images)
     IN productDoc' = [productDoc EXCEPT
                         !.images = images,
                         !.persisted = Some(images),
                         !.op = "save",
                         !.wasEmpty = Len(productDoc.images) = 0]
  /\ UNCHANGED <<orders, req, res, call>>

\* ------------------------------------------------------------ pure calls
NoCall == [fn |-> "", args |-> <<>>, result |-> Null]

FnCountries == {Undefined, "", "JO", "UK", "FR", "constructor"}

FnCities ==
  {Undefined, "", "Paris", "Amman", "Irbid", "Zarqa", "Aqaba", "Salt",
   "London", "Manchester", "Birmingham", "Liverpool", "Bristol"}

\* A stored order as the validators read it.
StoredOrder(logo) ==
  [cardDesign |-> [includePrintedLogo |-> JsFalse, companyLogo |-> logo],
   deliveryInfo |-> [country |-> "JO", city |-> "Amman"]]

FnCardDesign ==
  {None} \cup
  {Some([includePrintedLogo |-> i, companyLogo |-> l]) :
     i \in {Undefined, JsTrue, JsFalse}, l \in {NoPath, BodyLogo}}

FnExisting == {None, Some(StoredOrder(NoPath)), Some(StoredOrder(BodyLogo))}

KeyIncludePrintedLogo == <<CardDesignPrefix, "includePrintedLogo", "]">>
KeyColor == <<CardDesignPrefix, "color", "]">>
KeyUseSameContact == <<DeliveryInfoPrefix, "useSameContact", "]">>
KeyName == <<PersonalInfoPrefix, "name", "]">>
KeyPhone0 == <<PersonalInfoPrefix, "phoneNumbers", "]", "[", "0", "]">>

FormFlags == {Undefined, "true", "false", JsTrue, JsFalse, "yes", ""}
FormColors == {Undefined, "#000", "#FFF", "white", "red", JsArray}

\* The flat body holding the keys whose value is not Undefined.
FormBody(ipl, color, usc, name, phone) ==
  LET all == [k \in {KeyIncludePrintedLogo, KeyColor, KeyUseSameContact, KeyName, KeyPhone0} |->
                CASE k = KeyIncludePrintedLogo -> ipl
                  [] k = KeyColor -> color
                  [] k = KeyUseSameContact -> usc
                  [] k = KeyName -> name
                  [] OTHER -> phone]
  IN [k \in {k \in DOMAIN all : all[k] # Undefined} |-> all[k]]

NoNested == [personalInfo |-> None, cardDesign |-> None, deliveryInfo |-> None]

CallValidateCountryCity ==
  /\ call = NoCall
  /\  \E country \in FnCountries, city \in FnCities :
    /\ call' = [fn |-> "validateCountryCity", args |-> <<country, city>>,
                result |-> validateCountryCity(country, city)]
    /\ UNCHANGED <<orders, req, res, productDoc>>

CallValidateCompanyLogo ==
  /\ call = NoCall
  /\  \E cardDesign \in FnCardDesign, files \in ReqFiles, existingOrder \in FnExisting :
    /\ call' = [fn |-> "validateCompanyLogo",
                args |-> [cardDesign |-> cardDesign, files |-> files,
                          existingOrder |-> existingOrder],
                result |-> validateCompanyLogo(cardDesign, files, existingOrder)]
    /\ UNCHANGED <<orders, req, res, productDoc>>

CallParseFormData ==
  /\ call = NoCall
  /\  \E ipl \in FormFlags, color \in FormColors, usc \in FormFlags,
     name \in {Undefined, "Ann"}, phone \in {Undefined, "0791"} :
    /\ call' = [fn |-> "parseFormData",
                args |-> FormBody(ipl, color, usc, name, phone),
                result |-> parseFormData(FormBody(ipl, color, usc, name, phone), NoNested)]
    /\ UNCHANGED <<orders, req, res, productDoc>>

\* Uploads as multer records them.  The stored path starts with the
\* directory the application is installed in (path.join(__dirname, ...)):
\* HostedUpload is an installation under a web root named public_html, whose
\* name holds the letters "public" without being the segment public.
HostedUpload ==
  [fieldname |-> "companyLogo", filename |-> "logo-2.png",
   path |-> <<"/", "var", "/", "www", "/", "public", "_html", "/", "shop", "/",
              "public", "/", "uploads", "/", "companyLogo", "/", "logo-2.png">>]

\* An upload kept outside the public directory.
BareUpload ==
  [fieldname |-> "companyLogo", filename |-> "logo-3.png",
   path |-> <<"/", "tmp", "/", "logo-3.png">>]

\* An upload under another field.
ImageUpload ==
  [fieldname |-> "image", filename |-> "photo-4.png",
   path |-> <<"/", "app", "/", "public", "/", "uploads", "/", "images", "/",
              "photo-4.png">>]

\* req.file
FnFile == {None, Some(LogoUpload), Some(ImageUpload)}

\* req.files.companyLogo; the empty list when req.files has no such field.
FnFiles ==
  {<<>>, <<LogoUpload>>, <<HostedUpload>>, <<BareUpload>>,
   <<HostedUpload, LogoUpload>>}

CallProcessOrderFiles ==
  /\ call = NoCall
  /\ \E file \in FnFile, files \in FnFiles, cardDesign \in FnCardDesign :
       LET body == [personalInfo |-> Some([name |-> "Ann"]), cardDesign |-> cardDesign,
                    deliveryInfo |-> None, product |-> "P1"]
       IN /\ call' = [fn |-> "processOrderFiles",
                      args |-> [file |-> file, files |-> files, body |-> body],
                      result |-> processOrderFiles(file, files, body)]
          /\ UNCHANGED <<orders, req, res, productDoc>>

\* ------------------------------------------------------------ specifications
Init ==
  /\ orders = <<>>
  /\ req = NoRequest
  /\ res = NoResponse
  /\ call = NoCall
  /\ productDoc = NewProduct

\* A well-formed creation request.
SampleBody ==
  [personalInfo |-> Some([name |-> "Ann"]),
   cardDesign |-> Some([includePrintedLogo |-> JsFalse, companyLogo |-> NoPath]),
   deliveryInfo |-> Some([country |-> "JO", city |-> "Amman"]),
   product |-> "P1"]

CreateAny ==
  \E user \in Customers, body \in CreateBodies, files \in ReqFiles :
    CreateOrder(user, body, files)

UpdateAny ==
  \E id \in 1..Len(orders), body \in UpdateBodies, files \in ReqFiles :
    UpdateOrder(id, body, files)

\* An update of an order that does not exist; the handler answers before it
\* reads the body.
UpdateMissing ==
  \E files \in ReqFiles :
    UpdateOrder(Len(orders) + 1, [SampleBody EXCEPT !.product = Undefined], files)

CreateSample ==
  \E user \in Customers : CreateOrder(user, SampleBody, None)

StatusAny ==
  \E id \in 1..(MaxOrders + 1), status \in OrderStatuses \cup {Undefined, "lost"},
     notes \in {Undefined, "rush"} :
    UpdateOrderStatus(id, status, notes)

ReadAny ==
  \E user \in Users, customerId \in {u.id : u \in Users} :
    GetCustomerOrders(user, customerId)

CreateByOne ==
  \E user \in {u \in Customers : u.id = "u1"}, body \in CreateBodies, files \in ReqFiles :
    CreateOrder(user, body, files)

\* createOrder requests alone, each kept as received.
NextCreate ==
  \E user \in {u \in Customers : u.id = "u1"}, body \in CreateBodies, files \in ReqFiles :
    CreateOrderOf(user, body, files)

SpecCreate == Init /\ [][NextCreate]_vars

\* req.files.companyLogo of a request: no upload, or one of the uploads.
UploadFiles == {None, Some(LogoUpload), Some(HostedUpload), Some(BareUpload)}

CreateUploaded ==
  \E user \in {u \in Customers : u.id = "u1"}, cardDesign \in ReqCardDesign \ {None},
     files \in UploadFiles :
    CreateOrderOf(user, [SampleBody EXCEPT !.cardDesign = cardDesign], files)

UpdateUploaded ==
  \E id \in 1..Len(orders), cardDesign \in ReqCardDesign, files \in UploadFiles :
    UpdateOrderOf(id, [personalInfo |-> None, cardDesign |-> cardDesign,
                       deliveryInfo |-> None, product |-> Undefined], files)

\* Orders created and updated with and without an uploaded logo.
NextUploads == CreateUploaded \/ UpdateUploaded

SpecUploads == Init /\ [][NextUploads]_vars

\* createOrder and updateOrder requests, in any order.
NextOrders == CreateByOne \/ UpdateAny \/ UpdateMissing

SpecOrders == Init /\ [][NextOrders]_vars

NextStatus == CreateSample \/ StatusAny

SpecStatus == Init /\ [][NextStatus]_vars

NextAccess == CreateAny \/ ReadAny

SpecAccess == Init /\ [][NextAccess]_vars

NextFn ==
  \/ CallValidateCountryCity
  \/ CallValidateCompanyLogo
  \/ CallParseFormData
  \/ CallProcessOrderFiles

SpecFn == Init /\ [][NextFn]_vars

AddAny == \E imageUrl \in ImageUrls : AddImage(imageUrl)

RemoveAny == \E imageUrl \in ImageUrls : RemoveImage(imageUrl)

\* addImage, removeImage and save on one product, in any order.
NextProduct == AddAny \/ RemoveAny \/ Save

SpecProduct == Init /\ [][NextProduct]_vars

Next == CreateAny \/ UpdateAny \/ UpdateMissing \/ StatusAny \/ ReadAny

Spec == Init /\ [][Next]_vars

\* ------------------------------------------------------------ properties
Created(i) == i \in 1..Len(orders)

\* C1: every persisted order has total = productPrice + logoSurcharge, and a
\* positive logoSurcharge only with cardDesign.includePrintedLogo true.
C1_PricingInvariant ==
  \A i \in 1..Len(orders) :
    /\ orders[i].total = orders[i].productPrice + orders[i].logoSurcharge
    /\ orders[i].logoSurcharge > 0 => orders[i].cardDesign.includePrintedLogo = JsTrue

InWhitelist(country, city) == city \in AllowedCities(country)

\* C2, as stated: for every pair, validateCountryCity returns null exactly
\* when the city is in the country's list.
C2_NullIffWhitelisted ==
  call.fn = "validateCountryCity" =>
    (call.result = Null <=> InWhitelist(call.args[1], call.args[2]))

\* C2, amended: when country and city are both given, validateCountryCity
\* returns null exactly when the city is in the country's list; when either
\* is missing it returns null.
C2_NullIffWhitelistedWhenGiven ==
  call.fn = "validateCountryCity" =>
    IF call.args[1] \in {Undefined, ""} \/ call.args[2] \in {Undefined, ""}
    THEN call.result = Null
    ELSE call.result = Null <=> InWhitelist(call.args[1], call.args[2])

C2_Witness ==
  /\ call.fn = "validateCountryCity"
  /\ call.args = <<"UK", "Bristol">>
  /\ call.result = Null

\* C3: with includePrintedLogo true, validateCompanyLogo returns a message
\* exactly when the design carries no logo, no logo is uploaded and the
\* existing order stores none; with includePrintedLogo not true it returns null.
C3_LogoRequiredUnlessSupplied ==
  call.fn = "validateCompanyLogo" =>
    LET a == call.args
        requested ==
          a.cardDesign # None /\ a.cardDesign[1].includePrintedLogo = JsTrue
        onDesign == a.cardDesign # None /\ a.cardDesign[1].companyLogo # NoPath
        uploaded == a.files # None
        stored ==
          a.existingOrder # None /\ a.existingOrder[1].cardDesign.companyLogo # NoPath
    IN IF requested
       THEN call.result # Null <=> ~(onDesign \/ uploaded \/ stored)
       ELSE call.result = Null

C3_Witness ==
  /\ call.fn = "validateCompanyLogo"
  /\ call.args.cardDesign = Some([includePrintedLogo |-> JsTrue, companyLogo |-> NoPath])
  /\ call.args.files = None
  /\ call.args.existingOrder = Some(StoredOrder(NoPath))
  /\ call.result = LogoRequiredMsg

\* C4, as stated: createOrder without a product id answers 400 "Product ID
\* is required", createOrder with an unknown product id answers 404, and
\* neither persists an order.
C4_ProductErrors ==
  [][req'.op = "createOrder" =>
       /\ req'.product = Undefined =>
            /\ res'.code = 400
            /\ res'.message = "Product ID is required"
            /\ orders' = orders
       /\ (req'.product # Undefined /\ req'.product \notin DOMAIN ProductCatalog) =>
            /\ res'.code = 404
            /\ res'.message = "Product not found"
            /\ orders' = orders]_vars

\* C4, amended: the same, for a request that carries personalInfo,
\* cardDesign and deliveryInfo.
C4_ProductErrorsWhenGroupsGiven ==
  [][(req'.op = "createOrder" /\ req'.groups) =>
       /\ req'.product = Undefined =>
            /\ res'.code = 400
            /\ res'.message = "Product ID is required"
            /\ orders' = orders
       /\ (req'.product # Undefined /\ req'.product \notin DOMAIN ProductCatalog) =>
            /\ res'.code = 404
            /\ res'.message = "Product not found"
            /\ orders' = orders]_vars

C4_Witness ==
  /\ req.op = "createOrder"
  /\ req.groups
  /\ req.product = Undefined
  /\ res.code = 400
  /\ res.message = "Product ID is required"

\* C5: updateOrder on an existing order with no recognised field and no
\* uploaded logo answers 400 "No valid fields provided for update" and leaves
\* the orders as they were.
C5_EmptyUpdateRejected ==
  [][(req'.op = "updateOrder" /\ Created(req'.id) /\ req'.emptyChange) =>
       /\ res'.code = 400
       /\ res'.message = "No valid fields provided for update"
       /\ orders' = orders]_vars

C5_Witness ==
  /\ req.op = "updateOrder"
  /\ Created(req.id)
  /\ req.emptyChange
  /\ res.code = 400
  /\ res.message = "No valid fields provided for update"

\* The wording the status messages have.
StatusWording(s) ==
  CASE s = "confirmed" -> "Order confirmed! Your NFC card will be printed soon."
    [] s = "printed" -> "Your NFC card has been printed and is ready for shipping!"
    [] s = "shipped" -> "Your NFC card has been shipped! You will receive it soon."
    [] s = "delivered" -> "Order delivered successfully! Thank you for your business."
    [] OTHER -> "Order status updated to " \o s

\* C6: updateOrderStatus on an existing order with a recognised status s
\* succeeds whatever the current status is, stores s, and answers with the
\* message that s alone determines.
C6_StatusAcceptedFromAnyStatus ==
  [][(req'.op = "updateOrderStatus" /\ Created(req'.id)
        /\ req'.status \in OrderStatuses) =>
       /\ res'.code = 200
       /\ orders'[req'.id].status = req'.status
       /\ res'.message = StatusWording(req'.status)]_vars

C6_Witness ==
  /\ req.op = "updateOrderStatus"
  /\ Created(req.id)
  /\ req.status = "confirmed"
  /\ orders[req.id].status = "confirmed"
  /\ res.message = "Order confirmed! Your NFC card will be printed soon."

\* C7: getCustomerOrders returns the customer's orders when the caller is an
\* admin or the customer, and answers 403 with no orders otherwise.
C7_OwnOrdersOrAdmin ==
  req.op = "getCustomerOrders" =>
    IF req.role = "admin" \/ req.user = req.customerId
    THEN /\ res.code = 200
         /\ res.orders = {i \in 1..Len(orders) : orders[i].customer = req.customerId}
    ELSE /\ res.code = 403
         /\ res.orders = {}

C7_Witness ==
  /\ req.op = "getCustomerOrders"
  /\ req.role = "user"
  /\ req.user # req.customerId
  /\ \E i \in 1..Len(orders) : orders[i].customer = req.customerId
  /\ res.code = 403

\* C8: every persisted order's city is in the list of its country, and a
\* request whose delivery names an unknown country or a city outside the
\* country's list is rejected with a 400 error (404 when createOrder finds no
\* such product first).
C8_DeliveryWhitelisted ==
  [][/\ \A i \in 1..Len(orders') :
          InWhitelist(orders'[i].deliveryInfo.country, orders'[i].deliveryInfo.city)
     /\ (req'.op \in {"createOrder", "updateOrder"} /\ req'.badDelivery) =>
          /\ orders' = orders
          /\ \/ res'.code = 400
             \/ /\ res'.code = 404
                /\ req'.op = "createOrder"
                /\ req'.product \notin DOMAIN ProductCatalog]_vars

Given(key) == call.fn = "parseFormData" /\ ~call.result.threw /\ key \in DOMAIN call.args

ParsedIncludePrintedLogo == call.result.cardDesign[1]["includePrintedLogo"]

ParsedUseSameContact == call.result.deliveryInfo[1]["useSameContact"]

AsStated(given, parsed) ==
  IF given = "true" THEN parsed = JsTrue
  ELSE IF given = "false" THEN parsed = JsFalse
  ELSE parsed = given

\* C10, as stated: parseFormData turns "true" and "false" under the two
\* fields into the booleans and leaves every other value as it was.
C10_OtherValuesUntouched ==
  /\ Given(KeyIncludePrintedLogo) =>
       AsStated(call.args[KeyIncludePrintedLogo], ParsedIncludePrintedLogo)
  /\ Given(KeyUseSameContact) =>
       AsStated(call.args[KeyUseSameContact], ParsedUseSameContact)

AsCoerced(given, parsed) ==
  IF given = "true" \/ given = JsTrue THEN parsed = JsTrue ELSE parsed = JsFalse

\* C10, amended: parseFormData turns "true" (and the boolean true) under the
\* two fields into true and every other supplied value, "false" among them,
\* into false.
C10_OtherValuesBecomeFalse ==
  /\ Given(KeyIncludePrintedLogo) =>
       AsCoerced(call.args[KeyIncludePrintedLogo], ParsedIncludePrintedLogo)
  /\ Given(KeyUseSameContact) =>
       AsCoerced(call.args[KeyUseSameContact], ParsedUseSameContact)

C10_Witness ==
  /\ Given(KeyIncludePrintedLogo)
  /\ call.args[KeyIncludePrintedLogo] = "yes"
  /\ ParsedIncludePrintedLogo = JsFalse
  /\ Given(KeyUseSameContact)
  /\ call.args[KeyUseSameContact] = "false"
  /\ ParsedUseSameContact = JsFalse

\* C11: parseFormData does not throw, whatever the body holds, and calls
\* next() exactly once.
C11_NeverThrowsCallsNextOnce ==
  call.fn = "parseFormData" =>
    /\ ~call.result.threw
    /\ call.result.nextCalls = 1

\* The token "public" at position i of a path is a whole segment.
IsSegment(path, i) ==
  /\ path[i] = "public"
  /\ i = 1 \/ path[i - 1] = "/"
  /\ i = Len(path) \/ path[i + 1] = "/"

\* The path of an upload relative to the public asset root: what follows
\* the first segment public, and the bare file name when there is none.
RelativeToPublicRoot(file) ==
  LET at == {i \in 1..Len(file.path) : IsSegment(file.path, i)}
  IN IF at = {} THEN <<file.filename>>
     ELSE LET first == CHOOSE i \in at : \A j \in at : i <= j
          IN SubSeq(file.path, first + 1, Len(file.path))

\* The upload processOrderFiles takes the logo from: req.file when its field
\* is companyLogo, the first entry of req.files.companyLogo otherwise.
MatchingUpload(file, files) ==
  IF file # None /\ file[1].fieldname = "companyLogo" THEN file
  ELSE IF Len(files) > 0 THEN Some(files[1])
  ELSE None

\* C12: processOrderFiles leaves the body as it was when no companyLogo
\* upload is present; when one is present it changes cardDesign.companyLogo
\* only, to the upload's path relative to the public asset root (what
\* follows the segment public, the bare file name without such a segment).
C12_LogoFromUploadOnly ==
  call.fn = "processOrderFiles" =>
    LET a == call.args
        upload == MatchingUpload(a.file, a.files)
    IN IF upload = None THEN call.result = a.body
       ELSE /\ call.result.cardDesign # None
            /\ call.result.cardDesign[1].companyLogo = RelativeToPublicRoot(upload[1])
            /\ call.result.cardDesign[1].includePrintedLogo =
                 (IF a.body.cardDesign = None THEN Undefined
                  ELSE a.body.cardDesign[1].includePrintedLogo)
            /\ [call.result EXCEPT !.cardDesign = None]
                 = [a.body EXCEPT !.cardDesign = None]

\* C13: the image list a save stores is never empty, and a save that begins
\* with an empty list stores the default image alone.
C13_SavedProductHasImage ==
  /\ productDoc.persisted # None => Len(productDoc.persisted[1]) >= 1
  /\ (productDoc.op = "save" /\ productDoc.wasEmpty) =>
       productDoc.persisted = Some(<<DefaultProductImage>>)

C13_Witness ==
  /\ productDoc.op = "save"
  /\ productDoc.wasEmpty
  /\ productDoc.removed
  /\ productDoc.persisted = Some(<<DefaultProductImage>>)

\* The companyLogo createOrder stores for an uploaded file.
StoredByCreate(files) ==
  LET body == [SampleBody EXCEPT !.cardDesign =
                 Some([includePrintedLogo |-> JsTrue, companyLogo |-> NoPath])]
  IN createOrder([id |-> "u1", role |-> "user"], body, files)
       .created[1].cardDesign.companyLogo

\* C14: an updateOrder request that carries an uploaded company logo and
\* succeeds stores, as cardDesign.companyLogo, the resolved path of the
\* upload: the value createOrder stores for the same upload.
C14_UpdateStoresLogoAsCreate ==
  [][(call'.fn = "updateOrder" /\ call'.args.files # None /\ res'.code = 200) =>
       orders'[req'.id].cardDesign.companyLogo
         = StoredByCreate(call'.args.files)]_vars

\* The error of the first failing step of createOrder, as <<code, message>>,
\* in the order required fields, product lookup, logo, delivery; <<>> when
\* no step fails.
FirstError(body, files) ==
  LET requiredFieldsError == validateRequiredFields(body)
      logoError == validateCompanyLogo(body.cardDesign, files, None)
      deliveryError == validateDeliveryInfo(body.deliveryInfo, None)
  IN IF requiredFieldsError # Null THEN <<400, requiredFieldsError>>
     ELSE IF body.product \notin DOMAIN ProductCatalog THEN <<404, "Product not found">>
     ELSE IF logoError # Null THEN <<400, logoError>>
     ELSE IF deliveryError = TypeError
     THEN <<500, "validCities.includes is not a function">>
     ELSE IF deliveryError # Null THEN <<400, deliveryError>>
     ELSE <<>>

\* C15: a createOrder request stores one order, appended to the orders
\* there were, exactly when validateRequiredFields returns null, the product
\* is found, and validateCompanyLogo and validateDeliveryInfo return null;
\* otherwise the orders stay as they were and the response carries the error
\* of the first of these steps that fails.
C15_FirstErrorOrOneOrder ==
  [][call'.fn = "createOrder" =>
       LET firstError == FirstError(call'.args.body, call'.args.files)
       IN IF firstError = <<>>
          THEN /\ res'.code = 201
               /\ Len(orders') = Len(orders) + 1
               /\ SubSeq(orders', 1, Len(orders)) = orders
          ELSE /\ orders' = orders
               /\ res'.code = firstError[1]
               /\ res'.message = firstError[2]]_vars

\* A request failing at three steps at once: the product lookup, the logo
\* and the delivery; the product lookup's error is the one answered.
C15_Witness ==
  /\ call.fn = "createOrder"
  /\ Groups(call.args.body)
  /\ call.args.body.product = "P9"
  /\ call.args.body.cardDesign[1].includePrintedLogo = JsTrue
  /\ call.args.files = None
  /\ call.args.body.deliveryInfo[1].country = "FR"
  /\ res.code = 404
  /\ res.message = "Product not found"
  /\ orders = <<>>

=============================================================================
